---- MODULE Spec2Model ----
(***************************************************************************)
(* A model of extract_comments.py: extraction of comments into placeholder *)
(* text, the three translation exports, format detection, parsing of the   *)
(* translated file and reinsertion.                                        *)
(*                                                                         *)
(* Text is a sequence of one-character strings, so that every conversion   *)
(* (strip, splitlines, the regular expressions, escaping, the export line  *)
(* formats) is computed character by character as the code computes it.    *)
(***************************************************************************)
EXTENDS Integers, Sequences, FiniteSets, TLC

(***************************************************************************)
(* Bounds of the model.                                                    *)
(***************************************************************************)
\* Longest raw file content of a scanner run, in pieces of ScanPieces.
MaxParts == 5
\* Most comments in the files of a pipeline run.
MaxItems == 2
\* Most files of a pipeline run.
MaxFiles == 2
\* Longest hand-written translation file, in pieces of SegPieces.
MaxSegParts == 5
\* Longest base name of the file of a naming run, in characters.
MaxName == 2

(***************************************************************************)
(* Characters and strings.                                                 *)
(***************************************************************************)
\* str.strip() / \s of the characters of the model's alphabet.
IsSpace(c) == c \in {" ", "\t", "\n"}

\* s[a:b] of Python for 0 <= a, 0 <= b.
Slice(s, a, b) ==
  LET hi == IF b > Len(s) THEN Len(s) ELSE b
  IN  IF a >= hi THEN <<>> ELSE SubSeq(s, a + 1, hi)

\* s[a:] of Python.
From(s, a) == Slice(s, a, Len(s))

\* s.startswith(p)
StartsWith(s, p) == Len(s) >= Len(p) /\ SubSeq(s, 1, Len(p)) = p

\* s.endswith(p)
EndsWith(s, p) ==
  Len(s) >= Len(p) /\ SubSeq(s, Len(s) - Len(p) + 1, Len(s)) = p

\* whether p occurs in s at 0-based offset i
OccursAt(s, p, i) ==
  i + Len(p) <= Len(s) /\ \A k \in 1..Len(p) : s[i + k] = p[k]

\* p in s
Contains(s, p) == \E i \in 0..Len(s) : OccursAt(s, p, i)

\* The least element of a non-empty set of integers.
Least(S) == CHOOSE x \in S : \A y \in S : x <= y

\* s.lstrip(): from the first character that is no whitespace.
LStrip(s) ==
  LET kept == {i \in 1..Len(s) : ~IsSpace(s[i])}
  IN  IF kept = {} THEN <<>> ELSE SubSeq(s, Least(kept), Len(s))

\* s.rstrip(): up to the last character that is no whitespace.
RStrip(s) ==
  LET kept == {i \in 1..Len(s) : ~IsSpace(s[i])}
  IN  IF kept = {} THEN <<>> ELSE SubSeq(s, 1, -Least({-i : i \in kept}))

\* s.strip()
Strip(s) == RStrip(LStrip(s))

\* the concatenation of a sequence of strings: "".join(parts)
RECURSIVE Concat(_)
Concat(parts) ==
  IF parts = <<>> THEN <<>> ELSE Head(parts) \o Concat(Tail(parts))

\* sep.join(parts)
RECURSIVE Join(_, _)
Join(parts, sep) ==
  IF parts = <<>> THEN <<>>
  ELSE IF Len(parts) = 1 THEN parts[1]
  ELSE parts[1] \o sep \o Join(Tail(parts), sep)

\* The 0-based offset of the first occurrence of p in s at or after i, or
\* -1: s.find(p, i).
Find(s, p, i) ==
  LET at == {j \in i..(Len(s) - Len(p)) : OccursAt(s, p, j)}
  IN  IF at = {} THEN -1 ELSE Least(at)

\* s.replace(old, new): the occurrences of old, left to right and not
\* overlapping, become new; old is not empty.
RECURSIVE Replace(_, _, _)
Replace(s, old, new) ==
  LET at == Find(s, old, 0)
  IN  IF at = -1 THEN s
      ELSE Slice(s, 0, at) \o new \o Replace(From(s, at + Len(old)), old, new)

\* s.split(sep): the pieces between the occurrences of sep, left to right
\* and not overlapping.
RECURSIVE Split(_, _)
Split(s, sep) ==
  LET at == Find(s, sep, 0)
  IN  IF at = -1 THEN <<s>>
      ELSE <<Slice(s, 0, at)>> \o Split(From(s, at + Len(sep)), sep)

\* s.splitlines(): the lines of s, no empty last line after a final newline.
RECURSIVE SplitLines(_)
SplitLines(s) ==
  LET at == Find(s, <<"\n">>, 0)
  IN  IF s = <<>> THEN <<>>
      ELSE IF at = -1 THEN <<s>>
      ELSE <<Slice(s, 0, at)>> \o SplitLines(From(s, at + 1))

DigitChar(d) ==
  CASE d = 0 -> "0" [] d = 1 -> "1" [] d = 2 -> "2" [] d = 3 -> "3"
    [] d = 4 -> "4" [] d = 5 -> "5" [] d = 6 -> "6" [] d = 7 -> "7"
    [] d = 8 -> "8" [] d = 9 -> "9"

RECURSIVE Decimal(_)
Decimal(n) ==
  IF n < 10 THEN <<DigitChar(n)>>
  ELSE Append(Decimal(n \div 10), DigitChar(n % 10))

RECURSIVE ZeroPad(_, _)
ZeroPad(s, w) == IF Len(s) >= w THEN s ELSE ZeroPad(<<"0">> \o s, w)

\* f"{n:0wd}"
Fmt(n, w) == ZeroPad(Decimal(n), w)

(***************************************************************************)
(* Comment Scanner and Placeholder Rewriter.                               *)
(***************************************************************************)
SLASHES == <<"/", "/">>
OPEN == <<"/", "*">>
DOCOPEN == <<"/", "*", "*">>
CLOSE == <<"*", "/">>
PLACEHOLDER == <<"P", "L", "A", "C", "E", "H", "O", "L", "D", "E", "R", "_">>

\* '$' under re.MULTILINE at 0-based offset j: the end of the text or just
\* before a newline.
AtLineEnd(s, j) == j = Len(s) \/ s[j + 1] = "\n"

\* The end of the match of //.*?$ whose // ends at offset j: the lazy .*?
\* (which under re.DOTALL also takes newlines) stops at the first '$' at
\* or after j.
SingleEnd(s, j) == Least({e \in j..Len(s) : AtLineEnd(s, e)})

\* The end of the match of /\*.*?\*/ whose /* ends at offset k: just after
\* the first */ at or after k; -1 when there is none.
MultiEnd(s, k) ==
  IF Find(s, CLOSE, k) = -1 THEN -1 ELSE Find(s, CLOSE, k) + Len(CLOSE)

\* The match of the pattern anchored at offset i, as <<start, end>>, or
\* <<>> when neither alternative matches there.
MatchAt(s, i) ==
  IF OccursAt(s, SLASHES, i) THEN <<i, SingleEnd(s, i + 2)>>
  ELSE IF OccursAt(s, OPEN, i)
       THEN LET e == MultiEnd(s, i + 2)
            IN  IF e = -1 THEN <<>> ELSE <<i, e>>
       ELSE <<>>

\* pattern.finditer(content): the spans of the matches, left to right, each
\* search resuming at the end of the previous match.
RECURSIVE FindIter(_, _)
FindIter(s, i) ==
  LET at == {j \in i..(Len(s) - 1) : MatchAt(s, j) # <<>>}
  IN  IF at = {} THEN <<>>
      ELSE LET m == MatchAt(s, Least(at))
           IN  <<m>> \o FindIter(s, m[2])

\* os.path.basename of a path <<directory, name>>.
Basename(filename) == filename[2]

\* f"{base}-{block:03d}-{seg:02d}"
MakeIndex(base, block, seg) ==
  base \o <<"-">> \o Fmt(block, 3) \o <<"-">> \o Fmt(seg, 2)

\* re.sub(r'^\s*\*+\s?', '', line) for one line: leading whitespace, a run
\* of asterisks and one optional whitespace character are removed; a line
\* whose first non-blank character is no asterisk is left as it is.
DropStars(s) ==
  LET kept == {i \in 1..Len(s) : s[i] # "*"}
  IN  IF kept = {} THEN <<>> ELSE SubSeq(s, Least(kept), Len(s))

CleanLine(line) ==
  LET rest == LStrip(line)
  IN  IF rest # <<>> /\ Head(rest) = "*"
      THEN LET after == DropStars(rest)
           IN  IF after # <<>> /\ IsSpace(Head(after)) THEN Tail(after) ELSE after
      ELSE line

clean_multiline_lines(lines) == [k \in 1..Len(lines) |-> CleanLine(lines[k])]

\* comment_text[3:-2] for a comment opened by /**, comment_text[2:-2] else.
Inner(comment_text) ==
  IF StartsWith(comment_text, DOCOPEN)
  THEN Slice(comment_text, 3, Len(comment_text) - 2)
  ELSE Slice(comment_text, 2, Len(comment_text) - 2)

\* The stripped, non-empty cleaned lines of a multi-line comment.
IsNonEmpty(line) == line # <<>>

SegLines(comment_text) ==
  LET lines == clean_multiline_lines(SplitLines(Inner(comment_text)))
      stripped == [k \in 1..Len(lines) |-> Strip(lines[k])]
  IN  SelectSeq(stripped, IsNonEmpty)

\* MultiSegments without the empty segment of a block with no retained line.
MultiSegmentsNoFallback(base, counter, comment_text) ==
  LET segs == SegLines(comment_text)
  IN  [k \in 1..Len(segs) |-> <<MakeIndex(base, counter, k), segs[k]>>]

\* The segments of a multi-line block: one per retained line, or the one
\* empty segment of a block with no retained line.
MultiSegments(base, counter, comment_text) ==
  LET segs == SegLines(comment_text)
  IN  IF segs = <<>> THEN << <<MakeIndex(base, counter, 1), <<>>>> >>
      ELSE [k \in 1..Len(segs) |-> <<MakeIndex(base, counter, k), segs[k]>>]

\* The segment of a single-line block.
SingleSegments(base, counter, comment_text) ==
  << <<MakeIndex(base, counter, 1), Strip(From(comment_text, 2))>> >>

IsSingle(comment_text) == StartsWith(Strip(comment_text), SLASHES)

\* The block of the counter-th comment of the file.
MakeBlock(filename, counter, comment_text) ==
  [file |-> filename,
   block_id |-> counter,
   type |-> IF IsSingle(comment_text) THEN "single-line" ELSE "multi-line",
   segments |-> IF IsSingle(comment_text)
                THEN SingleSegments(Basename(filename), counter, comment_text)
                ELSE MultiSegments(Basename(filename), counter, comment_text)]

\* The placeholder text written in place of a block's comment.
PlaceholderText(block) ==
  IF block.type = "single-line"
  THEN SLASHES \o PLACEHOLDER \o block.segments[1][1]
  ELSE OPEN \o <<"\n">>
       \o Join([k \in 1..Len(block.segments) |->
                  PLACEHOLDER \o block.segments[k][1]], <<"\n">>)
       \o <<"\n">> \o CLOSE

\* ExtractLoop with last_idx left at the start of the match instead of its
\* end.
RECURSIVE ExtractLoopStale(_, _, _, _, _, _)
ExtractLoopStale(content, filename, spans, k, last_idx, acc) ==
  IF k > Len(spans)
  THEN [new_content |-> acc.new_content \o From(content, last_idx),
        blocks |-> acc.blocks]
  ELSE LET start == spans[k][1]
           block == MakeBlock(filename, Len(acc.blocks) + 1,
                              Slice(content, start, spans[k][2]))
       IN  ExtractLoopStale(content, filename, spans, k + 1, start,
             [new_content |-> acc.new_content
                                \o Slice(content, last_idx, start)
                                \o PlaceholderText(block),
              blocks |-> Append(acc.blocks, block)])

\* The loop of extract_comments_from_content over the matches from the
\* k-th on: acc.new_content is new_content_parts joined, last_idx the end
\* of the previous match, acc.blocks the blocks so far (file_block_counter
\* is Len(acc.blocks) + 1).
RECURSIVE ExtractLoop(_, _, _, _, _, _)
ExtractLoop(content, filename, spans, k, last_idx, acc) ==
  IF k > Len(spans)
  THEN [new_content |-> acc.new_content \o From(content, last_idx),
        blocks |-> acc.blocks]
  ELSE LET start == spans[k][1]
           end == spans[k][2]
           block == MakeBlock(filename, Len(acc.blocks) + 1,
                              Slice(content, start, end))
       IN  ExtractLoop(content, filename, spans, k + 1, end,
             [new_content |-> acc.new_content
                                \o Slice(content, last_idx, start)
                                \o PlaceholderText(block),
              blocks |-> Append(acc.blocks, block)])

extract_comments_from_content(content, filename) ==
  ExtractLoop(content, filename, FindIter(content, 0), 1, 0,
              [new_content |-> <<>>, blocks |-> <<>>])

\* The rows the extraction of a file appends to excel_rows.
RowsOf(blocks) ==
  Concat([b \in 1..Len(blocks) |->
            [k \in 1..Len(blocks[b].segments) |->
               <<blocks[b].file, blocks[b].type,
                 blocks[b].segments[k][1], blocks[b].segments[k][2]>>]])

(***************************************************************************)
(* Export Serializer.                                                      *)
(***************************************************************************)
TAB == <<"\t">>
\* r"\t": a backslash and the letter t
ESCAPED_TAB == <<"\\", "t">>
BULK_MARK == <<"<", "|", "|">>
BULK_END == <<"|", "|", ">">>
BLOCK_DELIMITER ==
  <<"_", "b", "l", "o", "c", "k", "_",
    "d", "e", "l", "i", "m", "i", "t", "e", "r">>

escape_tabs(text) == Replace(text, TAB, ESCAPED_TAB)

unescape_tabs(text) == Replace(text, ESCAPED_TAB, TAB)

\* The text of a segment as the segmented and tsv exports write it.
SegText(seg, do_escape_tabs) == IF do_escape_tabs THEN escape_tabs(seg) ELSE seg

\* comments_to_translate_segmented.txt: a line "{index} {seg_text}" per
\* segment.
SegmentedFile(blocks_all, do_escape_tabs) ==
  Concat([b \in 1..Len(blocks_all) |->
    Concat([k \in 1..Len(blocks_all[b].segments) |->
      blocks_all[b].segments[k][1] \o <<" ">>
        \o SegText(blocks_all[b].segments[k][2], do_escape_tabs)
        \o <<"\n">>])])

\* comments_to_translate_tsv.txt: a line "{line_number:04d} {joined}" per
\* block, the segments joined by the two characters backslash and t.
TsvFile(blocks_all, do_escape_tabs) ==
  Concat([b \in 1..Len(blocks_all) |->
    Fmt(b, 4) \o <<" ">>
      \o Join([k \in 1..Len(blocks_all[b].segments) |->
                 SegText(blocks_all[b].segments[k][2], do_escape_tabs)],
              ESCAPED_TAB)
      \o <<"\n">>])

\* The text of a segment as the bulk export writes it.
BulkSegText(seg, do_escape_tabs) == seg

Delimiter(block) ==
  BULK_MARK \o Basename(block.file) \o <<"_">> \o Fmt(block.block_id, 3)
    \o BLOCK_DELIMITER \o BULK_END

\* comments_to_translate_bulk.txt: per block its delimiter line and a line
\* per segment; one newline more ends the file.
BulkFile(blocks_all, do_escape_tabs) ==
  Concat([b \in 1..Len(blocks_all) |->
    Delimiter(blocks_all[b]) \o <<"\n">>
      \o Concat([k \in 1..Len(blocks_all[b].segments) |->
           BulkSegText(blocks_all[b].segments[k][2], do_escape_tabs)
             \o <<"\n">>])])
  \o <<"\n">>

generate_translation_files(blocks_all, do_escape_tabs) ==
  [segmented |-> SegmentedFile(blocks_all, do_escape_tabs),
   tsv |-> TsvFile(blocks_all, do_escape_tabs),
   bulk |-> BulkFile(blocks_all, do_escape_tabs)]

(***************************************************************************)
(* Format Detector and Import Parser.                                      *)
(***************************************************************************)
detect_translation_format(text) ==
  LET content == Strip(text)
  IN  IF StartsWith(content, BULK_MARK) \/ Contains(content, BULK_MARK)
      THEN "bulk"
      ELSE IF Contains(content, TAB) THEN "tsv"
      ELSE "segmented"

\* [line.rstrip("\n") for line in f.readlines()]
RECURSIVE ReadLines(_)
ReadLines(text) ==
  LET at == Find(text, <<"\n">>, 0)
  IN  IF text = <<>> THEN <<>>
      ELSE IF at = -1 THEN <<text>>
      ELSE <<Slice(text, 0, at)>> \o ReadLines(From(text, at + 1))

\* translation_mapping[k] = v
Put(m, k, v) == [x \in DOMAIN m \cup {k} |-> IF x = k THEN v ELSE m[x]]

EmptyMap == [x \in {} |-> <<>>]

\* ParseSegmentedFrom splitting at the first run of whitespace, as
\* line.split(None, 1) does.
RECURSIVE ParseSegmentedRun(_, _, _)
ParseSegmentedRun(lines, k, acc) ==
  IF k > Len(lines) THEN acc
  ELSE LET line == LStrip(lines[k])
           ws == {p \in 1..Len(line) : IsSpace(line[p])}
           rest == IF ws = {} THEN <<>> ELSE LStrip(From(line, Least(ws)))
       IN  IF Strip(line) = <<>> THEN ParseSegmentedRun(lines, k + 1, acc)
           ELSE IF rest = <<>>
           THEN ParseSegmentedRun(lines, k + 1,
                  [acc EXCEPT !.warnings = @ + 1])
           ELSE ParseSegmentedRun(lines, k + 1,
                  [acc EXCEPT !.map = Put(@, Slice(line, 0, Least(ws) - 1),
                                          rest)])

\* The segmented parse of the lines from the k-th on.
RECURSIVE ParseSegmentedFrom(_, _, _)
ParseSegmentedFrom(lines, k, acc) ==
  IF k > Len(lines) THEN acc
  ELSE LET line == lines[k]
           sp == Find(line, <<" ">>, 0)
       IN  IF Strip(line) = <<>> THEN ParseSegmentedFrom(lines, k + 1, acc)
           ELSE IF sp = -1
           THEN ParseSegmentedFrom(lines, k + 1,
                  [acc EXCEPT !.warnings = @ + 1])
           ELSE ParseSegmentedFrom(lines, k + 1,
                  [acc EXCEPT !.map = Put(@, Slice(line, 0, sp),
                                          From(line, sp + 1))])

\* for (idx, _), trans in zip(block["segments"], translated): the entries
\* of one block added to the mapping.
RECURSIVE PutAll(_, _, _, _)
PutAll(m, segments, translated, k) ==
  IF k > Len(segments) \/ k > Len(translated) THEN m
  ELSE PutAll(Put(m, segments[k][1], translated[k]), segments, translated, k + 1)

\* The tsv parse of the blocks from the k-th on.
RECURSIVE ParseTsvFrom(_, _, _, _)
ParseTsvFrom(blocks_all, lines, k, acc) ==
  IF k > Len(blocks_all) \/ k > Len(lines) THEN acc
  ELSE LET segments_translated == Split(From(lines[k], 5), ESCAPED_TAB)
       IN  IF Len(segments_translated) # Len(blocks_all[k].segments)
           THEN [acc EXCEPT !.ok = FALSE]
           ELSE ParseTsvFrom(blocks_all, lines, k + 1,
                  [acc EXCEPT !.map = PutAll(@, blocks_all[k].segments,
                                             segments_translated, 1)])

\* ParseTsv without its check of the number of lines.
ParseTsvUnchecked(blocks_all, lines, acc) ==
  ParseTsvFrom(blocks_all, lines, 1, acc)

ParseTsv(blocks_all, lines, acc) ==
  IF Len(lines) # Len(blocks_all) THEN [acc EXCEPT !.ok = FALSE]
  ELSE ParseTsvFrom(blocks_all, lines, 1, acc)

IsDelimiterLine(line) == StartsWith(line, BULK_MARK) /\ EndsWith(line, BULK_END)

\* The grouping loop of the bulk parse over the lines from the k-th on:
\* done is block_translations, cur is current_block_lines.
RECURSIVE BulkGroups(_, _, _, _)
BulkGroups(lines, k, done, cur) ==
  IF k > Len(lines)
  THEN (IF cur # <<>> THEN Append(done, cur) ELSE done)
  ELSE IF IsDelimiterLine(lines[k])
       THEN (IF cur # <<>>
             THEN BulkGroups(lines, k + 1, Append(done, cur), <<>>)
             ELSE BulkGroups(lines, k + 1, done, cur))
       ELSE IF Strip(lines[k]) = <<>> /\ cur = <<>>
            THEN BulkGroups(lines, k + 1, done, cur)
            ELSE BulkGroups(lines, k + 1, done, Append(cur, lines[k]))

RECURSIVE ParseBulkFrom(_, _, _, _)
ParseBulkFrom(blocks_all, block_translations, k, acc) ==
  IF k > Len(blocks_all) \/ k > Len(block_translations) THEN acc
  ELSE IF Len(block_translations[k]) # Len(blocks_all[k].segments)
       THEN [acc EXCEPT !.ok = FALSE]
       ELSE ParseBulkFrom(blocks_all, block_translations, k + 1,
              [acc EXCEPT !.map = PutAll(@, blocks_all[k].segments,
                                         block_translations[k], 1)])

ParseBulk(blocks_all, lines, acc) ==
  LET block_translations == BulkGroups(lines, 1, <<>>, <<>>)
  IN  IF Len(block_translations) # Len(blocks_all)
      THEN [acc EXCEPT !.ok = FALSE]
      ELSE ParseBulkFrom(blocks_all, block_translations, 1, acc)

\* The result of parse_translated_comments: ok is FALSE when the parse ends
\* the run (sys.exit(1)), map is translation_mapping, warnings the number
\* of segmented lines skipped with a warning.
parse_translated_comments(text, translation_format, blocks_all) ==
  LET lines == ReadLines(text)
      acc == [ok |-> TRUE, map |-> EmptyMap, warnings |-> 0]
  IN  CASE translation_format = "segmented" -> ParseSegmentedFrom(lines, 1, acc)
        [] translation_format = "tsv" -> ParseTsv(blocks_all, lines, acc)
        [] translation_format = "bulk" -> ParseBulk(blocks_all, lines, acc)
        [] OTHER -> [acc EXCEPT !.ok = FALSE]

(***************************************************************************)
(* Reinsertion Engine.                                                     *)
(***************************************************************************)
Letters ==
  {"a", "b", "c", "d", "e", "f", "g", "h", "i", "j", "k", "l", "m",
   "n", "o", "p", "q", "r", "s", "t", "u", "v", "w", "x", "y", "z",
   "A", "B", "C", "D", "E", "F", "G", "H", "I", "J", "K", "L", "M",
   "N", "O", "P", "Q", "R", "S", "T", "U", "V", "W", "X", "Y", "Z"}

Digits == {"0", "1", "2", "3", "4", "5", "6", "7", "8", "9"}

\* The character class [\w\-\d\.] of the placeholder pattern.
ClassChars == Letters \cup Digits \cup {"_", "-", "."}

InClass(c) == c \in ClassChars

\* The end of the greedy run [\w\-\d\.]* that starts at offset j.
ClassEnd(s, j) ==
  CHOOSE e \in j..Len(s) :
    /\ \A k \in (j + 1)..e : InClass(s[k])
    /\ e = Len(s) \/ ~InClass(s[e + 1])

\* Whether PLACEHOLDER_[\w\-\d\.]+ matches at offset i.
SiteAt(s, i) ==
  /\ OccursAt(s, PLACEHOLDER, i)
  /\ ClassEnd(s, i + Len(PLACEHOLDER)) > i + Len(PLACEHOLDER)

\* The spans re.sub finds for the placeholder pattern from offset i on, left
\* to right and not overlapping; starts holds the offsets where it matches.
RECURSIVE SitesIn(_, _, _)
SitesIn(s, starts, i) ==
  LET at == {j \in starts : j >= i}
  IN  IF at = {} THEN <<>>
      ELSE LET e == ClassEnd(s, Least(at) + Len(PLACEHOLDER))
           IN  <<<<Least(at), e>>>> \o SitesIn(s, starts, e)

Sites(s, i) == SitesIn(s, {j \in 0..(Len(s) - 1) : SiteAt(s, j)}, i)

\* index = ph.replace("PLACEHOLDER_", "").strip()
SiteIndex(ph) == Strip(Replace(ph, PLACEHOLDER, <<>>))

\* repl returning nothing for a placeholder that has no translation.
replDropping(ph, translation_mapping, do_escape_tabs) ==
  LET index == SiteIndex(ph)
  IN  IF index \in DOMAIN translation_mapping
      THEN [text |-> IF do_escape_tabs
                     THEN unescape_tabs(translation_mapping[index])
                     ELSE translation_mapping[index],
            replaced |-> 1, warnings |-> 0]
      ELSE [text |-> <<>>, replaced |-> 0, warnings |-> 1]

\* repl(match) for the placeholder ph: the text it returns, what it adds to
\* total_placeholders_replaced, and the warnings it prints.
repl(ph, translation_mapping, do_escape_tabs) ==
  LET index == SiteIndex(ph)
  IN  IF index \in DOMAIN translation_mapping
      THEN [text |-> IF do_escape_tabs
                     THEN unescape_tabs(translation_mapping[index])
                     ELSE translation_mapping[index],
            replaced |-> 1, warnings |-> 0]
      ELSE [text |-> ph, replaced |-> 0, warnings |-> 1]

\* re.sub(pattern, repl, content) over the sites from the k-th on: the
\* text kept between the sites, repl's text at each site.
RECURSIVE SubLoop(_, _, _, _, _, _)
SubLoop(content, sites, k, last, translation_mapping, do_escape_tabs) ==
  IF k > Len(sites)
  THEN [text |-> From(content, last), replaced |-> 0, warnings |-> 0]
  ELSE LET ph == Slice(content, sites[k][1], sites[k][2])
           r == repl(ph, translation_mapping, do_escape_tabs)
           rest == SubLoop(content, sites, k + 1, sites[k][2],
                           translation_mapping, do_escape_tabs)
       IN  [text |-> Slice(content, last, sites[k][1]) \o r.text \o rest.text,
            replaced |-> r.replaced + rest.replaced,
            warnings |-> r.warnings + rest.warnings]

\* The new content of one intermediary file, with the placeholders it
\* replaced and the warnings it printed.
ReinsertFile(content, translation_mapping, do_escape_tabs) ==
  SubLoop(content, Sites(content, 0), 1, 0, translation_mapping, do_escape_tabs)

\* The walk over the intermediary files: the output written for each file,
\* total_placeholders_replaced and the number of warnings printed.
RECURSIVE reinsert_translations(_, _, _, _)
reinsert_translations(files, contents, translation_mapping, do_escape_tabs) ==
  IF files = {}
  THEN [outputs |-> [x \in {} |-> <<>>], replaced |-> 0, warnings |-> 0]
  ELSE LET f == CHOOSE x \in files : TRUE
           r == ReinsertFile(contents[f], translation_mapping, do_escape_tabs)
           rest == reinsert_translations(files \ {f}, contents,
                                         translation_mapping, do_escape_tabs)
       IN  [outputs |-> [x \in DOMAIN rest.outputs \cup {f} |->
                           IF x = f THEN r.text ELSE rest.outputs[x]],
            replaced |-> r.replaced + rest.replaced,
            warnings |-> r.warnings + rest.warnings]

(***************************************************************************)
(* Inputs: the files on disk, and what the translator hands back.          *)
(***************************************************************************)
\* Absolute paths <<directory, name>>: two files of the same name in two
\* directories, and a file of another name.
F_C == <<"f", ".", "c">>
G_H == <<"g", ".", "h">>
FileOrder == <<<<"d1", F_C>>, <<"d2", F_C>>, <<"d1", G_H>>>>

\* The lists discover_files returns in the model: the first files of
\* FileOrder, at most MaxFiles of them.
FileLists ==
  {SubSeq(FileOrder, 1, n) : n \in {m \in 0..MaxFiles : m <= Len(FileOrder)}}

\* Raw contents of the scanner runs: every concatenation of at most
\* MaxParts pieces.
ScanPieces ==
  {<<"/">>, <<"*">>, <<"\n">>, <<" ">>, <<"a">>, <<"/", "*">>, <<"*", "/">>}

RECURSIVE PieceStrings(_, _)
PieceStrings(pieces, n) ==
  IF n = 0 THEN {<<>>}
  ELSE LET shorter == PieceStrings(pieces, n - 1)
       IN  shorter \cup {s \o p : s \in shorter, p \in pieces}

ScanContents == PieceStrings(ScanPieces, MaxParts)

\* Contents of the pipeline runs: comments (a plain one, one holding a real
\* tab, one holding a backslash and a t, an empty block, a block of two
\* lines), each after a piece of code and ending its line.
Comments ==
  {SLASHES \o <<"a">>,
   SLASHES \o <<"a", "\t", "a">>,
   SLASHES \o <<"\\", "t">>,
   OPEN \o CLOSE,
   OPEN \o <<"a", "\n", "b">> \o CLOSE}

FileOf(comments) ==
  Concat([k \in 1..Len(comments) |-> <<"x">> \o comments[k] \o <<"\n">>])

\* The contents whose comments fit the run once n comments were read.
FileContents(n) ==
  {FileOf(cs) : cs \in UNION {[1..m -> Comments] : m \in 0..(MaxItems - n)}}

\* The text without its last line.
DropLastLine(text) ==
  LET lines == ReadLines(text)
  IN  Concat([k \in 1..(Len(lines) - 1) |-> lines[k] \o <<"\n">>])

\* What a translator's tool does to an export before it is handed back:
\* nothing, losing the last line, or writing each backslash-t as a tab.
Edits == {"none", "drop-last-line", "tabify"}

Edited(text, edit) ==
  CASE edit = "none" -> text
    [] edit = "drop-last-line" -> DropLastLine(text)
    [] edit = "tabify" -> Replace(text, ESCAPED_TAB, TAB)

(***************************************************************************)
(* The state of a run of main().                                           *)
(***************************************************************************)
VARIABLES
  pc,                    \* where main() is
  args_escape_tabs,      \* args.escape_tabs
  file_list,             \* the files of the loop of main() not yet read
  source,                \* path -> the content read from the file
  intermediary,          \* path -> the file written to intermediary_dir
  all_blocks,            \* all_blocks
  excel_rows,            \* the global excel_rows
  exports,               \* the three files generate_translation_files wrote
  translated,            \* translated_comments.txt
  translation_format,    \* translation_format
  translation_mapping,   \* translation_mapping
  parse_warnings,        \* segmented lines skipped with a warning
  outputs,               \* path -> the file written to output_dir
  placeholders_replaced, \* placeholders_replaced
  warnings               \* "No translation found" warnings printed

vars ==
  <<pc, args_escape_tabs, file_list, source, intermediary, all_blocks,
    excel_rows, exports, translated, translation_format, translation_mapping,
    parse_warnings, outputs, placeholders_replaced, warnings>>

NoFiles == [x \in {} |-> <<>>]
NoExports == [segmented |-> <<>>, tsv |-> <<>>, bulk |-> <<>>]

InitWith(lists) ==
  /\ pc = "discovered"
  /\ args_escape_tabs \in BOOLEAN
  /\ file_list \in lists
  /\ source = NoFiles
  /\ intermediary = NoFiles
  /\ all_blocks = <<>>
  /\ excel_rows = <<>>
  /\ exports = NoExports
  /\ translated = <<>>
  /\ translation_format = "none"
  /\ translation_mapping = EmptyMap
  /\ parse_warnings = 0
  /\ outputs = NoFiles
  /\ placeholders_replaced = 0
  /\ warnings = 0

Init == InitWith(FileLists)

\* main(): no file was found.
NoFilesFound ==
  /\ pc = "discovered"
  /\ file_list = <<>>
  /\ pc' = "exit"
  /\ UNCHANGED <<args_escape_tabs, file_list, source, intermediary, all_blocks,
                 excel_rows, exports, translated, translation_format,
                 translation_mapping, parse_warnings, outputs,
                 placeholders_replaced, warnings>>

\* main(): intermediary_dir is created anew.
MakeIntermediary ==
  /\ pc = "discovered"
  /\ file_list # <<>>
  /\ pc' = "extract"
  /\ intermediary' = NoFiles
  /\ UNCHANGED <<args_escape_tabs, file_list, source, all_blocks,
                 excel_rows, exports, translated, translation_format,
                 translation_mapping, parse_warnings, outputs,
                 placeholders_replaced, warnings>>

\* One turn of the loop of main() over file_list for a file that reads as
\* content: the file is extracted, its blocks join all_blocks, its rows
\* excel_rows, and its placeholder text is written to intermediary_dir.
ExtractContent(content) ==
  LET file == Head(file_list)
      r == extract_comments_from_content(content, file)
  IN  /\ file_list' = Tail(file_list)
      /\ source' = Put(source, file, content)
      /\ all_blocks' = all_blocks \o r.blocks
      /\ excel_rows' = excel_rows \o RowsOf(r.blocks)
      /\ intermediary' = Put(intermediary, file, r.new_content)
      /\ UNCHANGED <<pc, args_escape_tabs, exports, translated,
                     translation_format, translation_mapping, parse_warnings,
                     outputs, placeholders_replaced, warnings>>

ExtractFile ==
  /\ pc = "extract"
  /\ file_list # <<>>
  /\ \E content \in FileContents(Len(all_blocks)) : ExtractContent(content)

\* One turn of the loop for a file that cannot be read: it is left out.
SkipUnreadable ==
  /\ pc = "extract"
  /\ file_list # <<>>
  /\ file_list' = Tail(file_list)
  /\ UNCHANGED <<pc, args_escape_tabs, source, intermediary, all_blocks,
                 excel_rows, exports, translated, translation_format,
                 translation_mapping, parse_warnings, outputs,
                 placeholders_replaced, warnings>>

\* main(): the loop is over, the three exports are written.
GenerateFiles ==
  /\ pc = "extract"
  /\ file_list = <<>>
  /\ exports' = generate_translation_files(all_blocks, args_escape_tabs)
  /\ pc' = "prompt"
  /\ UNCHANGED <<args_escape_tabs, file_list, source, intermediary, all_blocks,
                 excel_rows, translated, translation_format,
                 translation_mapping, parse_warnings, outputs,
                 placeholders_replaced, warnings>>

\* prompt_for_translation(): the translator saves one of the exports,
\* edited or not, as translated_comments.txt.
Translate ==
  /\ pc = "prompt"
  /\ \E format \in {"segmented", "tsv", "bulk"}, edit \in Edits :
       translated' = Edited(exports[format], edit)
  /\ pc' = "translated"
  /\ UNCHANGED <<args_escape_tabs, file_list, source, intermediary, all_blocks,
                 excel_rows, exports, translation_format,
                 translation_mapping, parse_warnings, outputs,
                 placeholders_replaced, warnings>>

\* main(): translated_comments.txt is not there.
NoTranslation ==
  /\ pc = "prompt"
  /\ pc' = "exit"
  /\ UNCHANGED <<args_escape_tabs, file_list, source, intermediary, all_blocks,
                 excel_rows, exports, translated, translation_format,
                 translation_mapping, parse_warnings, outputs,
                 placeholders_replaced, warnings>>

\* main(): the format of translated_comments.txt is detected.
Detect ==
  /\ pc = "translated"
  /\ translation_format' = detect_translation_format(translated)
  /\ pc' = "detected"
  /\ UNCHANGED <<args_escape_tabs, file_list, source, intermediary, all_blocks,
                 excel_rows, exports, translated, translation_mapping,
                 parse_warnings, outputs, placeholders_replaced, warnings>>

\* main(): translated_comments.txt is parsed; a structural mismatch ends
\* the run.
Parse ==
  LET r == parse_translated_comments(translated, translation_format, all_blocks)
  IN  /\ pc = "detected"
      /\ pc' = IF r.ok THEN "parsed" ELSE "aborted"
      /\ translation_mapping' = IF r.ok THEN r.map ELSE translation_mapping
      /\ parse_warnings' = r.warnings
      /\ UNCHANGED <<args_escape_tabs, file_list, source, intermediary,
                     all_blocks, excel_rows, exports, translated,
                     translation_format, outputs, placeholders_replaced,
                     warnings>>

\* main(): output_dir is created anew and every intermediary file is
\* written to it with its placeholders replaced.
Reinsert ==
  LET r == reinsert_translations(DOMAIN intermediary, intermediary,
                                 translation_mapping, args_escape_tabs)
  IN  /\ pc = "parsed"
      /\ outputs' = r.outputs
      /\ placeholders_replaced' = r.replaced
      /\ warnings' = r.warnings
      /\ pc' = "done"
      /\ UNCHANGED <<args_escape_tabs, file_list, source, intermediary,
                     all_blocks, excel_rows, exports, translated,
                     translation_format, translation_mapping, parse_warnings>>

Next ==
  \/ NoFilesFound
  \/ MakeIntermediary
  \/ ExtractFile
  \/ SkipUnreadable
  \/ GenerateFiles
  \/ Translate
  \/ NoTranslation
  \/ Detect
  \/ Parse
  \/ Reinsert

Spec == Init /\ [][Next]_vars

(***************************************************************************)
(* The scanner runs: one file of any raw content is read and extracted.    *)
(***************************************************************************)
ScanFile ==
  /\ pc = "extract"
  /\ file_list # <<>>
  /\ \E content \in ScanContents : ExtractContent(content)

ScanInit == InitWith({<<FileOrder[1]>>}) /\ args_escape_tabs

ScanNext == MakeIntermediary \/ ScanFile

ScanSpec == ScanInit /\ [][ScanNext]_vars

(***************************************************************************)
(* The hand-written runs: one file with one comment is extracted, and the  *)
(* translator saves a translation file of their own writing.               *)
(***************************************************************************)
\* What the lines of a hand-written translation file are made of: the index
\* of the file's fragment, a space, a letter, the end of the line.
SegPieces == {MakeIndex(F_C, 1, 1), <<" ">>, <<"a">>, <<"\n">>}

SegTexts == PieceStrings(SegPieces, MaxSegParts)

\* The file of a hand-written run is read: one plain comment.
ExtractPlain ==
  /\ pc = "extract"
  /\ file_list # <<>>
  /\ ExtractContent(FileOf(<<SLASHES \o <<"a">>>>))

\* prompt_for_translation(): the translator saves a file of their own as
\* translated_comments.txt.
WriteTranslation ==
  /\ pc = "prompt"
  /\ \E text \in SegTexts : translated' = text
  /\ pc' = "translated"
  /\ UNCHANGED <<args_escape_tabs, file_list, source, intermediary, all_blocks,
                 excel_rows, exports, translation_format,
                 translation_mapping, parse_warnings, outputs,
                 placeholders_replaced, warnings>>

SegInit == InitWith({<<FileOrder[1]>>})

SegNext ==
  \/ MakeIntermediary
  \/ ExtractPlain
  \/ GenerateFiles
  \/ WriteTranslation
  \/ Detect
  \/ Parse
  \/ Reinsert

SegSpec == SegInit /\ [][SegNext]_vars

(***************************************************************************)
(* The naming runs: one file, of any base name, is read and extracted.     *)
(***************************************************************************)
\* What the base names are made of: a letter, a dot, a space, a plus sign.
NameChars == {"f", ".", " ", "+"}

\* The base names a file can have: not empty, and not a directory entry.
BaseNames ==
  (PieceStrings({<<c>> : c \in NameChars}, MaxName) \ {<<>>})
    \ {<<".">>, <<".", ".">>}

NameInit == InitWith({<<<<"d1", name>>>> : name \in BaseNames})

NameNext == MakeIntermediary \/ ExtractFile

NameSpec == NameInit /\ [][NameNext]_vars

(***************************************************************************)
(* Definitions the properties below are stated with.                       *)
(***************************************************************************)
Generated == pc \in {"prompt", "translated", "detected", "parsed", "aborted", "done"}

\* The blocks of a file, in the order of all_blocks.
IsBlockOf(f, block) == block.file = f

BlocksOf(f) == LET Mine(block) == IsBlockOf(f, block) IN SelectSeq(all_blocks, Mine)

\* The fragments of a list of blocks as <<index, text>>, in order.
Fragments(blocks) == Concat([b \in 1..Len(blocks) |-> blocks[b].segments])

\* The TranslationMap that gives every fragment index its own extracted
\* text.
OwnTexts(blocks) ==
  LET frags == Fragments(blocks)
  IN  [x \in {frags[k][1] : k \in 1..Len(frags)} |->
         frags[CHOOSE k \in 1..Len(frags) : frags[k][1] = x][2]]

\* A comment as extraction normalizes it: its fragments' trimmed texts
\* between the comment's delimiters.
NormalComment(block) ==
  IF block.type = "single-line"
  THEN SLASHES \o block.segments[1][2]
  ELSE OPEN \o <<"\n">>
       \o Join([k \in 1..Len(block.segments) |-> block.segments[k][2]], <<"\n">>)
       \o <<"\n">> \o CLOSE

\* The content with its k-th comment span replaced by texts[k], for the
\* spans from the k-th on; last is the end of the previous span.
RECURSIVE Spliced(_, _, _, _, _)
Spliced(content, spans, texts, k, last) ==
  IF k > Len(spans) THEN From(content, last)
  ELSE Slice(content, last, spans[k][1]) \o texts[k]
         \o Spliced(content, spans, texts, k + 1, spans[k][2])

\* The original content of a file up to the normalization of its comments.
Normalized(f) ==
  Spliced(source[f], FindIter(source[f], 0),
          [k \in 1..Len(BlocksOf(f)) |-> NormalComment(BlocksOf(f)[k])], 1, 0)

(***************************************************************************)
(* C1. Round-trip identity: reinserting, into the placeholder text of a    *)
(* file, the map that gives every fragment index of the file its own       *)
(* extracted text yields the original content up to the normalization of   *)
(* the comments, with escaping enabled and with escaping disabled.         *)
(***************************************************************************)
C1_RoundTrip ==
  \A f \in DOMAIN intermediary : \A escaping \in BOOLEAN :
    ReinsertFile(intermediary[f], OwnTexts(BlocksOf(f)), escaping).text
      = Normalized(f)

(***************************************************************************)
(* C2. Format equivalence: the three exports of an extraction, each parsed *)
(* in its own format against the block list, all parse without a fatal     *)
(* error and give the same TranslationMap.                                 *)
(***************************************************************************)
C2_FormatEquivalence ==
  Generated =>
    LET seg == parse_translated_comments(exports.segmented, "segmented", all_blocks)
        tsv == parse_translated_comments(exports.tsv, "tsv", all_blocks)
        bulk == parse_translated_comments(exports.bulk, "bulk", all_blocks)
    IN  /\ seg.ok /\ tsv.ok /\ bulk.ok
        /\ seg.map = tsv.map
        /\ tsv.map = bulk.map

(***************************************************************************)
(* C3. Index uniqueness: the indices of all fragments of all_blocks are    *)
(* pairwise distinct, within a file and across files.                      *)
(***************************************************************************)
C3_IndexUnique ==
  LET frags == Fragments(all_blocks)
  IN  \A i, j \in 1..Len(frags) : i # j => frags[i][1] # frags[j][1]

(***************************************************************************)
(* C4. Escaping inverse law: unescape_tabs(escape_tabs(t)) = t for every   *)
(* fragment text t, also one that holds a backslash followed by t.         *)
(***************************************************************************)
C4_EscapeInverse ==
  LET frags == Fragments(all_blocks)
  IN  \A k \in 1..Len(frags) :
        unescape_tabs(escape_tabs(frags[k][2])) = frags[k][2]

(***************************************************************************)
(* C5. Escaping on export: with escaping enabled, none of the three export *)
(* files holds a real tab; every tab of a fragment text was written as a   *)
(* backslash and a t.                                                      *)
(***************************************************************************)
C5_ExportsEscaped ==
  (Generated /\ args_escape_tabs) =>
    /\ ~Contains(exports.segmented, TAB)
    /\ ~Contains(exports.tsv, TAB)
    /\ ~Contains(exports.bulk, TAB)

(***************************************************************************)
(* C10. Exports are classified as themselves: with at least one block, an  *)
(* export handed back unmodified is detected as the format it was written  *)
(* in.                                                                     *)
(***************************************************************************)
C10_SelfClassified ==
  (pc = "detected" /\ all_blocks # <<>>) =>
    \A format \in {"segmented", "tsv", "bulk"} :
      translated = exports[format] => translation_format = format

(***************************************************************************)
(* C6. All-or-nothing abort: when translated_comments.txt is parsed as tsv *)
(* or bulk and a structural check fails (the tsv line count or the bulk    *)
(* group count differs from the block count, or a block's segment or line  *)
(* count differs from its fragment count), the run ends there with an      *)
(* error, and no output file is written, also for blocks that validated    *)
(* before the mismatch.                                                    *)
(***************************************************************************)
\* The segments of a tsv line: one more than the separators after the
\* five characters of its line number.
TsvSegmentCount(line) ==
  Cardinality({i \in 0..Len(From(line, 5)) :
                 OccursAt(From(line, 5), ESCAPED_TAB, i)}) + 1

TsvMismatch ==
  LET lines == ReadLines(translated)
  IN  \/ Len(lines) # Len(all_blocks)
      \/ \E k \in 1..Len(all_blocks) :
           TsvSegmentCount(lines[k]) # Len(all_blocks[k].segments)

BulkMismatch ==
  LET groups == BulkGroups(ReadLines(translated), 1, <<>>, <<>>)
  IN  \/ Len(groups) # Len(all_blocks)
      \/ \E k \in 1..Len(all_blocks) :
           Len(groups[k]) # Len(all_blocks[k].segments)

StructuralMismatch ==
  \/ translation_format = "tsv" /\ TsvMismatch
  \/ translation_format = "bulk" /\ BulkMismatch

C6_AllOrNothing ==
  /\ [][(pc = "detected" /\ StructuralMismatch)
          => (pc' = "aborted" /\ outputs' = NoFiles)]_vars
  /\ [](pc = "aborted" => (outputs = NoFiles /\ ~ENABLED Next))

\* A tsv parse that ended the run at its second block, after the first
\* block had validated.
C6_Witness ==
  /\ pc = "aborted"
  /\ translation_format = "tsv"
  /\ outputs = NoFiles
  /\ LET lines == ReadLines(translated)
     IN  /\ Len(lines) = Len(all_blocks)
         /\ Len(all_blocks) >= 2
         /\ TsvSegmentCount(lines[1]) = Len(all_blocks[1].segments)
         /\ TsvSegmentCount(lines[2]) # Len(all_blocks[2].segments)

\* The sum of the first n values of f.
RECURSIVE SumTo(_, _)
SumTo(f, n) == IF n = 0 THEN 0 ELSE f[n] + SumTo(f, n - 1)

\* The placeholder sites of the text s of the file f from the k-th on, each
\* with its token, whether its index has an entry in the TranslationMap,
\* and where it starts in the output: its offset in s moved by what the
\* mapped sites before it grew.
RECURSIVE SiteFactsFrom(_, _, _, _, _)
SiteFactsFrom(f, s, sites, k, shift) ==
  IF k > Len(sites) THEN <<>>
  ELSE LET token == Slice(s, sites[k][1], sites[k][2])
           mapped == SiteIndex(token) \in DOMAIN translation_mapping
           text == IF args_escape_tabs
                   THEN unescape_tabs(translation_mapping[SiteIndex(token)])
                   ELSE translation_mapping[SiteIndex(token)]
           growth == IF mapped THEN Len(text) - Len(token) ELSE 0
       IN  <<[file |-> f, token |-> token, mapped |-> mapped,
              offset |-> sites[k][1], output_offset |-> sites[k][1] + shift]>>
             \o SiteFactsFrom(f, s, sites, k + 1, shift + growth)

\* The placeholder sites of the intermediary files in files.
RECURSIVE SiteFacts(_)
SiteFacts(files) ==
  IF files = {} THEN <<>>
  ELSE LET f == CHOOSE x \in files : TRUE
       IN  SiteFactsFrom(f, intermediary[f], Sites(intermediary[f], 0), 1, 0)
             \o SiteFacts(files \ {f})

(***************************************************************************)
(* C7. Unmapped placeholder: reinsertion leaves every placeholder whose    *)
(* index has no entry in the TranslationMap unchanged at its place in the  *)
(* output, reports one warning for it, does not count it as replaced, and  *)
(* the run goes on to its end.                                             *)
(***************************************************************************)
C7_UnmappedKept ==
  [][pc = "parsed" =>
       LET facts == SiteFacts(DOMAIN intermediary)
       IN  /\ pc' = "done"
           /\ DOMAIN outputs' = DOMAIN intermediary
           /\ \A k \in DOMAIN facts :
                ~facts[k].mapped =>
                  OccursAt(outputs'[facts[k].file], facts[k].token,
                           facts[k].output_offset)
           /\ warnings' = Cardinality({k \in DOMAIN facts : ~facts[k].mapped})
           /\ placeholders_replaced'
                = Cardinality({k \in DOMAIN facts : facts[k].mapped})]_vars

\* A finished run in which a placeholder was replaced by a text of another
\* length and a later placeholder of the same file had no translation.
C7_Witness ==
  /\ pc = "done"
  /\ warnings >= 1
  /\ LET facts == SiteFacts(DOMAIN intermediary)
     IN  \E k \in DOMAIN facts :
           /\ ~facts[k].mapped
           /\ facts[k].output_offset # facts[k].offset

(***************************************************************************)
(* C8. Non-empty-block invariant: every extracted block has at least one   *)
(* fragment; a single-line block has exactly one; a multi-line block whose *)
(* interior lines are all blank once asterisks are stripped and the lines  *)
(* trimmed has exactly one fragment, with empty text; any other multi-line *)
(* block has one fragment per non-blank cleaned line, in source order, and *)
(* none of their texts is empty.                                           *)
(***************************************************************************)
\* The comment of the k-th block of file f, as it stands in the source.
CommentOf(f, k) ==
  Slice(source[f], FindIter(source[f], 0)[k][1], FindIter(source[f], 0)[k][2])

\* The interior lines of a multi-line comment, asterisks stripped, trimmed.
CleanedLines(comment_text) ==
  LET lines == clean_multiline_lines(SplitLines(Inner(comment_text)))
  IN  [k \in 1..Len(lines) |-> Strip(lines[k])]

\* The position in lines of its j-th non-blank line.
NthNonBlank(lines, j) ==
  CHOOSE k \in 1..Len(lines) :
    /\ lines[k] # <<>>
    /\ Cardinality({m \in 1..k : lines[m] # <<>>}) = j

BlockShape(block, comment_text) ==
  LET lines == CleanedLines(comment_text)
      nonblank == {k \in 1..Len(lines) : lines[k] # <<>>}
      n == Len(block.segments)
  IN  /\ n >= 1
      /\ block.type \in {"single-line", "multi-line"}
      /\ block.type = "single-line" <=> StartsWith(comment_text, SLASHES)
      /\ block.type = "single-line" => n = 1
      /\ (block.type = "multi-line" /\ nonblank = {}) =>
           (n = 1 /\ block.segments[1][2] = <<>>)
      /\ (block.type = "multi-line" /\ nonblank # {}) =>
           /\ n = Cardinality(nonblank)
           /\ \A j \in 1..n :
                /\ block.segments[j][2] # <<>>
                /\ block.segments[j][2] = lines[NthNonBlank(lines, j)]

C8_BlockShape ==
  \A f \in DOMAIN source :
    /\ Len(BlocksOf(f)) = Len(FindIter(source[f], 0))
    /\ \A k \in 1..Len(BlocksOf(f)) : BlockShape(BlocksOf(f)[k], CommentOf(f, k))

\* An extracted multi-line comment of several interior lines, all blank
\* once cleaned: its block has the one empty fragment.
C8_Witness ==
  \E f \in DOMAIN source : \E k \in 1..Len(BlocksOf(f)) :
    /\ BlocksOf(f)[k].type = "multi-line"
    /\ Len(CleanedLines(CommentOf(f, k))) >= 2
    /\ \A m \in 1..Len(CleanedLines(CommentOf(f, k))) :
         CleanedLines(CommentOf(f, k))[m] = <<>>
    /\ Len(BlocksOf(f)[k].segments) = 1

(***************************************************************************)
(* C9. Code outside comments is untouched: the rewritten text is the       *)
(* original with each scanned comment span replaced by its placeholder     *)
(* text; the spans are in source order and do not overlap; the text before *)
(* the first span, between spans and after the last span is identical and  *)
(* in the same order.                                                      *)
(***************************************************************************)
\* How much the k-th span of f grows when its placeholder replaces it.
SpanGrowth(f, k) ==
  Len(PlaceholderText(BlocksOf(f)[k]))
    - (FindIter(source[f], 0)[k][2] - FindIter(source[f], 0)[k][1])

\* The shift of the rewritten text against the source after k spans.
ShiftAfter(f, k) == SumTo([j \in 1..k |-> SpanGrowth(f, j)], k)

Untouched(f) ==
  LET spans == FindIter(source[f], 0)
      n == Len(spans)
      old == source[f]
      new == intermediary[f]
      \* the end of the k-th span and the start of the next, the ends of
      \* the text standing in for the spans before the first and after the
      \* last
      GapStart(k) == IF k = 0 THEN 0 ELSE spans[k][2]
      GapEnd(k) == IF k = n THEN Len(old) ELSE spans[k + 1][1]
  IN  /\ Len(BlocksOf(f)) = n
      /\ \A k \in 1..n : 0 <= spans[k][1] /\ spans[k][1] < spans[k][2]
                         /\ spans[k][2] <= Len(old)
      /\ \A k \in 1..(n - 1) : spans[k][2] <= spans[k + 1][1]
      /\ Len(new) = Len(old) + ShiftAfter(f, n)
      /\ \A k \in 1..n :
           Slice(new, spans[k][1] + ShiftAfter(f, k - 1),
                 spans[k][2] + ShiftAfter(f, k))
             = PlaceholderText(BlocksOf(f)[k])
      /\ \A k \in 0..n :
           Slice(new, GapStart(k) + ShiftAfter(f, k), GapEnd(k) + ShiftAfter(f, k))
             = Slice(old, GapStart(k), GapEnd(k))

C9_CodeUntouched == \A f \in DOMAIN intermediary : Untouched(f)

\* A rewritten file of two comments with code between them.
C9_Witness ==
  \E f \in DOMAIN intermediary :
    /\ Len(FindIter(source[f], 0)) >= 2
    /\ FindIter(source[f], 0)[1][2] < FindIter(source[f], 0)[2][1]
    /\ Untouched(f)

(***************************************************************************)
(* Segmented lines as the parser is said to read them.                     *)
(***************************************************************************)
NonBlank(line) == \E p \in 1..Len(line) : ~IsSpace(line[p])

HasSpace(line) == \E p \in 1..Len(line) : line[p] = " "

\* Where the first space of the line is (1-based).
FirstSpace(line) ==
  CHOOSE p \in 1..Len(line) :
    line[p] = " " /\ \A q \in 1..(p - 1) : line[q] # " "

\* Where the run of whitespace that starts at the first space ends.
RunEnd(line) ==
  CHOOSE e \in FirstSpace(line)..Len(line) :
    /\ \A q \in FirstSpace(line)..e : IsSpace(line[q])
    /\ e = Len(line) \/ ~IsSpace(line[e + 1])

SegKey(line) == SubSeq(line, 1, FirstSpace(line) - 1)

\* The text of the line after its first space, and after the whole run.
AfterSpace(line) == SubSeq(line, FirstSpace(line) + 1, Len(line))

AfterRun(line) == SubSeq(line, RunEnd(line) + 1, Len(line))

SegmentedParsed ==
  pc \in {"parsed", "done"} /\ translation_format = "segmented"

\* The lines of the translation file that hold an index, a space and more:
\* those that are not blank and have a space.
EntryLines(lines) ==
  {k \in 1..Len(lines) : NonBlank(lines[k]) /\ HasSpace(lines[k])}

\* The last line of the file for its index.
LastForKey(lines, k) ==
  \A j \in EntryLines(lines) : j > k => SegKey(lines[j]) # SegKey(lines[k])

(***************************************************************************)
(* C11 as stated. Segmented parsing: every non-blank line is split at its  *)
(* first run of whitespace into (index, text), the text starting after the *)
(* whole run, and adds index -> text to the TranslationMap. Stated for the *)
(* lines that begin with an index and have text after the run.             *)
(***************************************************************************)
C11_SplitAtRun ==
  SegmentedParsed =>
    LET lines == ReadLines(translated)
    IN  \A k \in EntryLines(lines) :
          (FirstSpace(lines[k]) > 1 /\ AfterRun(lines[k]) # <<>>
             /\ LastForKey(lines, k))
            => /\ SegKey(lines[k]) \in DOMAIN translation_mapping
               /\ translation_mapping[SegKey(lines[k])] = AfterRun(lines[k])

(***************************************************************************)
(* C11 as amended. Segmented parsing: every non-blank line that has a      *)
(* space is split at its first space into (index, text), the text starting *)
(* right after that one space, and adds index -> text to the               *)
(* TranslationMap (a later line of the same index wins); a non-blank line  *)
(* without a space is skipped with one warning and adds no entry; a        *)
(* segmented parse never ends the run.                                     *)
(***************************************************************************)
C11_SplitAtSpace ==
  /\ translation_format = "segmented" => pc # "aborted"
  /\ SegmentedParsed =>
       LET lines == ReadLines(translated)
       IN  /\ DOMAIN translation_mapping
                = {SegKey(lines[k]) : k \in EntryLines(lines)}
           /\ \A k \in EntryLines(lines) :
                LastForKey(lines, k) =>
                  translation_mapping[SegKey(lines[k])] = AfterSpace(lines[k])
           /\ parse_warnings
                = Cardinality({k \in 1..Len(lines) :
                                 NonBlank(lines[k]) /\ ~HasSpace(lines[k])})

\* A segmented parse that skipped a line with a warning and kept, for a
\* line with two spaces after its index, the second space in the text.
C11_Witness ==
  /\ SegmentedParsed
  /\ parse_warnings >= 1
  /\ \E key \in DOMAIN translation_mapping :
       /\ key # <<>>
       /\ translation_mapping[key] # <<>>
       /\ translation_mapping[key][1] = " "

(***************************************************************************)
(* C12. Every placeholder the Rewriter emits is found whole by the         *)
(* Reinsertion Engine: in the rewritten text of a file, of any base name,  *)
(* the reinsertion pattern matches one site per fragment, each exactly the *)
(* token PLACEHOLDER_{index} of its fragment, the key looked up is the     *)
(* fragment's index, and reinserting a map that holds every fragment index *)
(* prints no warning and leaves no placeholder in the output.              *)
(***************************************************************************)
C12_PlaceholderWhole ==
  \A f \in DOMAIN intermediary :
    LET frags == Fragments(BlocksOf(f))
        sites == Sites(intermediary[f], 0)
        out == ReinsertFile(intermediary[f], OwnTexts(BlocksOf(f)),
                            args_escape_tabs)
    IN  /\ Len(sites) = Len(frags)
        /\ \A k \in 1..Len(sites) :
             LET token == Slice(intermediary[f], sites[k][1], sites[k][2])
             IN  /\ token = PLACEHOLDER \o frags[k][1]
                 /\ SiteIndex(token) = frags[k][1]
        /\ out.warnings = 0
        /\ out.replaced = Len(frags)
        /\ ~Contains(out.text, PLACEHOLDER)

====
